---------------------------- MODULE Spec2Model ----------------------------
(***************************************************************************)
(* Notice2Do (src/app.py): a Streamlit page that sends a notice text to a  *)
(* generation backend (call_ai), renders the structured record and offers  *)
(* the task deadlines as an iCalendar document (to_ics).                   *)
(*                                                                         *)
(* Strings are sequences of characters.  A character is a one-letter       *)
(* string; characters that cannot be written that way are named by a       *)
(* token: "LF", "CR", "TAB", and "U+XXXX" for a code point above 127.      *)
(***************************************************************************)
EXTENDS Integers, Sequences, FiniteSets, TLC

VARIABLES
    pc,          \* position of the script run (button handler, lines 151-184)
    raw_text,    \* the text handed to the handler (line 141-149), run-length coded
    secret,      \* st.secrets.get("OPENAI_API_KEY") (line 53)
    response,    \* what client.responses.create gave in this run (line 76)
    data,        \* the record call_ai returned (line 157)
    err,         \* the exception that ended this run, "" when none
    warned,      \* st.warning was shown in this run (line 153)
    sent,        \* generation requests issued so far, over all runs
    passed,      \* call_ai invocations so far whose credential passed lines 53-66
    runs,        \* button presses so far
    yearPadded,  \* whether the platform's strftime pads %Y to four digits
    now_utc,     \* datetime.now(timezone.utc), already formatted (line 100)
    args,        \* the arguments of the to_ics call
    ics          \* the outcome of the to_ics call

vars == <<pc, raw_text, secret, response, data, err, warned, sent, passed, runs,
          yearPadded, now_utc, args, ics>>

-----------------------------------------------------------------------------
(* Characters and the str methods the program uses.                         *)

Chars(s) == [i \in 1..Len(s) |-> SubSeq(s, i, i)]

AsciiDigits == {"0", "1", "2", "3", "4", "5", "6", "7", "8", "9"}

\* Characters for which str.isdigit / the regex class \d holds: the ASCII
\* digits and every other Unicode decimal digit (here FULLWIDTH DIGIT TWO).
UnicodeDigits == AsciiDigits \cup {"U+FF12"}

\* int() of one decimal digit.
DigitVal(c) ==
    CASE c = "0" -> 0 [] c = "1" -> 1 [] c = "2" -> 2 [] c = "3" -> 3
      [] c = "4" -> 4 [] c = "5" -> 5 [] c = "6" -> 6 [] c = "7" -> 7
      [] c = "8" -> 8 [] c = "9" -> 9 [] c = "U+FF12" -> 2

\* ord(ch) of the characters credentials are built from.
ord(c) ==
    CASE c = "TAB" -> 9 [] c = "LF" -> 10 [] c = "CR" -> 13 [] c = " " -> 32
      [] c = "-" -> 45 [] c = "a" -> 97 [] c = "k" -> 107 [] c = "p" -> 112
      [] c = "s" -> 115
      [] c = "U+00A0" -> 160     \* NO-BREAK SPACE
      [] c = "U+200B" -> 8203    \* ZERO WIDTH SPACE
      [] c = "U+3000" -> 12288   \* IDEOGRAPHIC SPACE
      [] c = "U+AC00" -> 44032   \* HANGUL SYLLABLE GA
      [] c = "U+FEFF" -> 65279   \* BYTE ORDER MARK

\* str.isspace: what str.strip() removes and the regex class \s matches.
isspace(c) == c \in {" ", "TAB", "LF", "CR", "U+00A0", "U+3000"}

\* str.lower, one character.
lower_char(c) ==
    CASE c = "N" -> "n" [] c = "U" -> "u" [] c = "L" -> "l" [] c = "O" -> "o"
      [] c = "E" -> "e" [] c = "T" -> "t" [] OTHER -> c

lower(s) == [i \in 1..Len(s) |-> lower_char(s[i])]

\* str.strip(): drops the leading and trailing whitespace.
strip(s) ==
    LET keep == {i \in 1..Len(s) : ~isspace(s[i])}
    IN  IF keep = {} THEN <<>>
        ELSE LET lo == CHOOSE i \in keep : \A j \in keep : i <= j
                 hi == CHOOSE i \in keep : \A j \in keep : j <= i
             IN  SubSeq(s, lo, hi)

\* str.replace(old, new) for a one-character old and new.
replace(s, old, new) == [i \in 1..Len(s) |-> IF s[i] = old THEN new ELSE s[i]]

startswith(s, prefix) ==
    /\ Len(s) >= Len(prefix)
    /\ SubSeq(s, 1, Len(prefix)) = prefix

RECURSIVE join(_, _)
\* sep.join(lines)
join(sep, lines) ==
    IF lines = <<>> THEN <<>>
    ELSE IF Len(lines) = 1 THEN lines[1]
    ELSE lines[1] \o sep \o join(sep, Tail(lines))

DigitChar(k) == CHOOSE c \in AsciiDigits : DigitVal(c) = k

RECURSIVE str_int(_)
\* str(n) of a natural number, as an f-string writes it.
str_int(n) ==
    IF n < 10 THEN <<DigitChar(n)>>
    ELSE str_int(n \div 10) \o <<DigitChar(n % 10)>>

RECURSIVE int_digits(_)
int_digits(s) ==
    IF s = <<>> THEN 0
    ELSE 10 * int_digits(SubSeq(s, 1, Len(s) - 1)) + DigitVal(s[Len(s)])

\* int(s): surrounding whitespace is ignored, any decimal digit counts.
int(s) == int_digits(strip(s))

-----------------------------------------------------------------------------
(* datetime.strptime(due, "%Y-%m-%d %H:%M") (line 116).  The standard      *)
(* library turns the format into the regular expression                    *)
(*   (\d\d\d\d)-(1[0-2]|0[1-9]|[1-9])-(3[0-1]|[1-2]\d|0[1-9]|[1-9]| [1-9]) *)
(*   \s+(2[0-3]|[0-1]\d|\d):([0-5]\d|\d)                                   *)
(* matches it at the start of the string, the alternatives tried in the    *)
(* order written, and then requires that the match used the whole string.  *)

R(lo, hi) == {c \in AsciiDigits : lo <= DigitVal(c) /\ DigitVal(c) <= hi}

Group(name, alts) == [kind |-> "group", name |-> name, alts |-> alts]

Lit(c) == [kind |-> "lit", name |-> c, alts |-> <<>>]

WsPlus == [kind |-> "ws+", name |-> "", alts |-> <<>>]

\* The regular expression of "%Y-%m-%d %H:%M": an alternative is a sequence of
\* character classes, a character class the set of characters it admits.
DUE_REGEX ==
    << Group("Y", << <<UnicodeDigits, UnicodeDigits, UnicodeDigits, UnicodeDigits>> >>),
       Lit("-"),
       Group("m", << <<{"1"}, R(0, 2)>>, <<{"0"}, R(1, 9)>>, <<R(1, 9)>> >>),
       Lit("-"),
       Group("d", << <<{"3"}, R(0, 1)>>, <<R(1, 2), UnicodeDigits>>, <<{"0"}, R(1, 9)>>,
                     <<R(1, 9)>>, <<{" "}, R(1, 9)>> >>),
       WsPlus,
       Group("H", << <<{"2"}, R(0, 3)>>, <<R(0, 1), UnicodeDigits>>, <<UnicodeDigits>> >>),
       Lit(":"),
       Group("M", << <<R(0, 5), UnicodeDigits>>, <<UnicodeDigits>> >>) >>

NoMatch == [ok |-> FALSE, end |-> 0, caps |-> <<>>]

\* The first successful attempt of a sequence of attempts, as backtracking finds it.
FirstOk(attempts) ==
    IF \E i \in 1..Len(attempts) : attempts[i].ok
    THEN attempts[CHOOSE i \in 1..Len(attempts) :
                     /\ attempts[i].ok
                     /\ \A j \in 1..(i - 1) : ~attempts[j].ok]
    ELSE NoMatch

AltMatches(s, p, alt) ==
    /\ p + Len(alt) - 1 <= Len(s)
    /\ \A j \in 1..Len(alt) : s[p + j - 1] \in alt[j]

\* Length of the whitespace run of s that starts at p.
WsRun(s, p) ==
    LET stops == {q \in p..Len(s) : ~isspace(s[q])}
    IN  IF stops = {} THEN Len(s) + 1 - p
        ELSE (CHOOSE q \in stops : \A r \in stops : q <= r) - p

RECURSIVE re_match(_, _, _, _, _)
\* re.match of regex[k..] on s from position p; caps are the groups so far.
re_match(regex, s, k, p, caps) ==
    IF k > Len(regex) THEN [ok |-> TRUE, end |-> p, caps |-> caps]
    ELSE LET e == regex[k] IN
         CASE e.kind = "lit" ->
                IF p <= Len(s) /\ s[p] = e.name
                THEN re_match(regex, s, k + 1, p + 1, caps)
                ELSE NoMatch
           [] e.kind = "group" ->
                FirstOk([j \in 1..Len(e.alts) |->
                    IF AltMatches(s, p, e.alts[j])
                    THEN re_match(regex, s, k + 1, p + Len(e.alts[j]),
                                  [caps EXCEPT ![e.name] =
                                       SubSeq(s, p, p + Len(e.alts[j]) - 1)])
                    ELSE NoMatch])
           [] e.kind = "ws+" ->
                LET n == WsRun(s, p)
                IN  FirstOk([j \in 1..n |->
                        re_match(regex, s, k + 1, p + (n - j + 1), caps)])

NoCaps == [Y |-> <<>>, m |-> <<>>, d |-> <<>>, H |-> <<>>, M |-> <<>>]

is_leap(y) == (y % 4 = 0) /\ ((y % 100 # 0) \/ (y % 400 = 0))

days_in_month(y, m) ==
    IF m = 2 THEN (IF is_leap(y) THEN 29 ELSE 28)
    ELSE IF m \in {4, 6, 9, 11} THEN 30 ELSE 31

\* datetime.date(year, month, day) succeeds (MINYEAR is 1).
valid_date(y, m, d) ==
    /\ 1 <= y /\ y <= 9999
    /\ 1 <= m /\ m <= 12
    /\ 1 <= d /\ d <= days_in_month(y, m)

ValueError == [ok |-> FALSE, Y |-> 0, m |-> 0, d |-> 0, H |-> 0, M |-> 0]

\* Mutant of unconverted_data_remains: what follows the match is ignored.
ignore_unconverted_data(s, found) == FALSE

\* Whether the match must have consumed the whole string.
unconverted_data_remains(s, found) == found.end # Len(s) + 1

\* strptime(s, "%Y-%m-%d %H:%M"): a datetime, or ValueError.
strptime(s) ==
    LET found == re_match(DUE_REGEX, s, 1, 1, NoCaps)
    IN  IF ~found.ok THEN ValueError
        ELSE IF unconverted_data_remains(s, found) THEN ValueError
        ELSE LET y  == int(found.caps.Y)
                 mo == int(found.caps.m)
                 d  == int(found.caps.d)
             IN  IF ~valid_date(y, mo, d) THEN ValueError
                 ELSE [ok |-> TRUE, Y |-> y, m |-> mo, d |-> d,
                       H |-> int(found.caps.H), M |-> int(found.caps.M)]

\* A number written with at least w digits, zeros in front.
zfill(n, w) ==
    LET ds == str_int(n)
    IN  [i \in 1..(IF Len(ds) < w THEN w - Len(ds) ELSE 0) |-> "0"] \o ds

\* %Y of strftime: the C library's; glibc does not pad a year below 1000,
\* other platforms write four digits.
strftime_Y(y, padded) == IF padded THEN zfill(y, 4) ELSE str_int(y)

\* dt.strftime("%Y%m%dT%H%M%S") (lines 120-121); the seconds of a parsed due are 0.
strftime(dt, padded) ==
    strftime_Y(dt.Y, padded) \o zfill(dt.m, 2) \o zfill(dt.d, 2) \o <<"T">>
        \o zfill(dt.H, 2) \o zfill(dt.M, 2) \o zfill(0, 2)

-----------------------------------------------------------------------------
(* JSON values as json.loads gives them, and to_ics (lines 93-136).         *)

None == [kind |-> "null", val |-> <<>>]

Str(s) == [kind |-> "str", val |-> s]

\* A JSON number, kept as its digits.
Num(s) == [kind |-> "num", val |-> s]

\* dict.get(key): None when the key is absent.
get(t, key) == IF key \in DOMAIN t THEN t[key] ELSE None

\* Python truth of a value, as `or` tests it.
truthy(v) ==
    CASE v.kind = "null" -> FALSE
      [] v.kind = "str" -> v.val # <<>>
      [] v.kind = "num" -> int_digits(v.val) # 0

DEFAULT_TZID == Chars("Asia/Seoul")

PLACEHOLDER == <<"U+D560", " ", "U+C77C">>

ICS_HEADER ==
    << Chars("BEGIN:VCALENDAR"), Chars("VERSION:2.0"),
       Chars("PRODID:-//Notice2Do//KR//EN"), Chars("CALSCALE:GREGORIAN") >>

\* Mutant of ICS_FOOTER: the closing line is left out.
ICS_FOOTER_left_out == <<>>

ICS_FOOTER == << Chars("END:VCALENDAR") >>

Skip == [act |-> "skip", dt |-> ValueError]

\* due.lower() in ("null", "none", "") (line 111)
is_null_token(due) == lower(due) \in {Chars("null"), Chars("none"), <<>>}

\* due.replace("T", " ") (line 113)
normalize_due(due) == replace(due, "T", " ")

\* Lines 103-118 for one item: skip it, raise, or go on with a datetime.
parse_due(t) ==
    LET due == get(t, "due_local")
    IN  IF due = None THEN Skip
        ELSE IF due.kind = "str"
        THEN LET trimmed == strip(due.val)
             IN  IF is_null_token(trimmed) THEN Skip
                 ELSE LET dt == strptime(normalize_due(trimmed))
                      IN  IF dt.ok THEN [act |-> "emit", dt |-> dt] ELSE Skip
        \* strptime() argument 1 must be str: not a ValueError, so not caught
        ELSE [act |-> "TypeError", dt |-> ValueError]

\* (t.get("task") or PLACEHOLDER) is not a string: .replace raises (line 123)
summary_raises(t) == truthy(get(t, "task")) /\ get(t, "task").kind # "str"

\* (t.get("task") or "할 일").replace("\n", " ").strip() (line 123)
event_summary(t) ==
    LET v == get(t, "task")
    IN  strip(replace(IF truthy(v) THEN v.val ELSE PLACEHOLDER, "LF", " "))

\* Mutant of event_uid: the UID is built from the start time alone.
event_uid_without_index(i, dtstart) ==
    Chars("notice2do-") \o dtstart \o Chars("@local")

\* f"notice2do-{i}-{dtstart}@local" (line 122)
event_uid(i, dtstart) ==
    Chars("notice2do-") \o str_int(i) \o <<"-">> \o dtstart \o Chars("@local")

\* The seven lines of one event (lines 120-133); i is the zero-based index.
event_lines(i, t, dt, tzid, now, padded) ==
    LET dtstart == strftime(dt, padded)
        dtend   == strftime(dt, padded)
    IN  << Chars("BEGIN:VEVENT"),
           Chars("UID:") \o event_uid(i, dtstart),
           Chars("DTSTAMP:") \o now,
           Chars("DTSTART;TZID=") \o tzid \o <<":">> \o dtstart,
           Chars("DTEND;TZID=") \o tzid \o <<":">> \o dtend,
           Chars("SUMMARY:") \o event_summary(t),
           Chars("END:VEVENT") >>

Raised(exc) == [status |-> "raised", exc |-> exc, doc |-> <<>>]

RECURSIVE ics_loop(_, _, _, _, _, _)
\* for i, t in enumerate(tasks) (line 102), from the k-th item on (i = k - 1)
ics_loop(tasks, k, tzid, now, padded, lines) ==
    IF k > Len(tasks) THEN [status |-> "returned", exc |-> "", doc |-> lines]
    ELSE LET t == tasks[k]
             r == parse_due(t)
         IN  IF r.act = "skip" THEN ics_loop(tasks, k + 1, tzid, now, padded, lines)
             ELSE IF r.act # "emit" THEN Raised(r.act)
             ELSE IF summary_raises(t) THEN Raised("AttributeError")
             ELSE ics_loop(tasks, k + 1, tzid, now, padded,
                           lines \o event_lines(k - 1, t, r.dt, tzid, now, padded))

\* to_ics(tasks, tzid): the document, or the exception that escapes.
to_ics(tasks, tzid, now, padded) ==
    LET r == ics_loop(tasks, 1, tzid, now, padded, ICS_HEADER)
    IN  IF r.status = "raised" THEN r
        ELSE [status |-> "returned", exc |-> "",
              doc |-> join(<<"LF">>, r.doc \o ICS_FOOTER)]

NotCalled == [status |-> "none", exc |-> "", doc |-> <<>>]

-----------------------------------------------------------------------------
(* The inputs to_ics is applied to.                                         *)

MaxTasks == 2

\* The parts a due string is put together from.
DueFields == {"lead", "Y", "sep", "m", "d", "mid", "H", "colon", "M", "tail"}

BaseDue ==
    [lead |-> <<>>, Y |-> Chars("2024"), sep |-> <<"-">>, m |-> Chars("02"),
     d |-> Chars("29"), mid |-> <<" ">>, H |-> Chars("09"), colon |-> <<":">>,
     M |-> Chars("00"), tail |-> <<>>]

DueChoices ==
    [lead  |-> {<<" ">>, <<"T">>},
     Y     |-> {Chars("2025"), Chars("0999"), Chars("0000"), Chars("225"),
                <<"U+FF12", "0", "2", "4">>},
     sep   |-> {<<"/">>},
     m     |-> {Chars("2"), Chars("03"), Chars("12"), Chars("13"), Chars("00"), <<>>},
     d     |-> {Chars("10"), Chars("1"), Chars("30"), Chars("32"), Chars(" 5"),
                Chars("00"), <<"1", "U+FF12">>},
     mid   |-> {<<"T">>, <<" ", " ">>, <<>>, <<"TAB">>, <<"T", " ">>, <<"U+00A0">>},
     H     |-> {Chars("9"), Chars("23"), Chars("24"), <<"U+FF12">>},
     colon |-> {<<".">>},
     M     |-> {Chars("5"), Chars("59"), Chars("60")},
     tail  |-> {Chars(":00"), <<"Z">>, <<" ">>, <<"T">>}]

Deviations == UNION {{<<f, v>> : v \in DueChoices[f]} : f \in DueFields}

Compose(c) ==
    c.lead \o c.Y \o c.sep \o c.m \o c.sep \o c.d \o c.mid \o c.H \o c.colon
        \o c.M \o c.tail

\* Every due string that differs from the base one in at most three parts.
DueFamily ==
    {Compose([[[BaseDue EXCEPT ![a[1]] = a[2]] EXCEPT ![b[1]] = b[2]]
                  EXCEPT ![c[1]] = c[2]]) :
        a \in Deviations, b \in Deviations, c \in Deviations} \cup {Compose(BaseDue)}

DueValues ==
    {Str(s) : s \in DueFamily}
        \cup {None, Str(<<>>), Str(Chars("null")), Str(Chars(" None ")),
              Str(Chars("NULL")), Str(Chars("  ")), Str(Chars("TBD")),
              Str(Chars("2025-03-10T09:00")), Str(Chars("2025/03/10 09:00")),
              Num(Chars("20250310")), Num(Chars("0"))}

TaskValues ==
    {None, Str(<<>>), Str(Chars("Submit")),
     Str(Chars("Submit") \o <<"LF">> \o Chars("report")),
     Str(Chars("Submit") \o <<"CR">> \o Chars("report")),
     Str(Chars("Submit") \o <<"CR", "LF">> \o Chars("report")),
     Str(Chars(" Submit ")), Str(<<"LF">>), Str(Chars("  ")),
     Str(<<"LF">> \o Chars("Submit") \o <<"LF">>)}

Item(task, due) == [task |-> task, due_local |-> due]

\* Items of every kind, for the calls with several tasks.
CoreItems ==
    { Item(Str(Chars("Submit")), Str(Chars("2025-03-10T09:00"))),
      Item(Str(Chars("Submit") \o <<"LF">> \o Chars("report")),
           Str(Chars("2025-03-10 09:00"))),
      Item(Str(Chars("Read")), None),
      Item(Str(Chars("Read")), Str(Chars("2025/03/10 09:00"))),
      [due_local |-> Str(Chars("2025-3-10 9:00"))],
      Item(Str(<<>>), Str(Chars("0999-01-01 00:00"))),
      Item(Str(Chars("Pay")), Num(Chars("20250310"))),
      [task |-> Str(Chars("Ask"))] }

SingleItems ==
    {Item(Str(Chars("Submit")), due) : due \in DueValues}
        \cup {Item(task, Str(Chars("2025-03-10T09:00"))) : task \in TaskValues}
        \cup {[due_local |-> Str(Chars("2025-03-10T09:00"))]}

Tzids == {DEFAULT_TZID, Chars("UTC")}

IcsInputs ==
    {[tasks |-> ts, tzid |-> z] :
        ts \in UNION {[1..n -> CoreItems] : n \in 0..MaxTasks}, z \in Tzids}
        \cup {[tasks |-> <<t>>, tzid |-> DEFAULT_TZID] : t \in SingleItems}

\* Two readings of the clock, as line 100 formats them.
Clocks == {Chars("20250301T000000Z"), Chars("20261105T093000Z")}

NoArgs == [tasks |-> <<>>, tzid |-> <<>>]

NoResponse == [kind |-> "none"]

NoData == [kind |-> "none"]

\* to_ics called on its own, on each input.
InitIcs ==
    /\ pc = "idle"
    /\ raw_text = <<>>
    /\ secret = None
    /\ response = NoResponse
    /\ data = NoData
    /\ err = ""
    /\ warned = FALSE
    /\ sent = 0
    /\ passed = 0
    /\ runs = 0
    /\ yearPadded \in BOOLEAN
    /\ now_utc \in Clocks
    /\ args \in IcsInputs
    /\ ics = NotCalled

CallToIcs ==
    /\ ics = NotCalled
    /\ ics' = to_ics(args.tasks, args.tzid, now_utc, yearPadded)
    /\ UNCHANGED <<pc, raw_text, secret, response, data, err, warned, sent, passed,
                   runs, yearPadded, now_utc, args>>

NextIcs == CallToIcs

SpecIcs == InitIcs /\ [][NextIcs]_vars

-----------------------------------------------------------------------------
(* SCHEMA (lines 24-49), call_ai (lines 51-91) and the button handler       *)
(* (lines 151-184).                                                         *)

Arr(items) == [kind |-> "array", val |-> items]

Rep(x, n) == [i \in 1..n |-> x]

SUMMARY_MIN_ITEMS == 3

SUMMARY_MAX_ITEMS == 8

TASKS_MIN_ITEMS == 1

TASKS_MAX_ITEMS == 10

PRIORITIES == {Chars("high"), Chars("mid"), Chars("low")}

\* The item schema of "tasks" (lines 34-44).
task_schema(t) ==
    /\ DOMAIN t = {"task", "due_local", "priority", "source_quote"}
    /\ t.task.kind = "str"
    /\ t.due_local.kind \in {"str", "null"}
    /\ t.priority.kind = "str" /\ t.priority.val \in PRIORITIES
    /\ t.source_quote.kind = "str"

\* Whether a record conforms to SCHEMA: the required fields and no other, the
\* array lengths within their bounds, every item of its type.
SCHEMA(rec) ==
    /\ DOMAIN rec = {"title", "summary", "tasks", "uncertainties"}
    /\ rec.title.kind = "str"
    /\ rec.summary.kind = "array"
    /\ Len(rec.summary.val) >= SUMMARY_MIN_ITEMS
    /\ Len(rec.summary.val) <= SUMMARY_MAX_ITEMS
    /\ \A i \in 1..Len(rec.summary.val) : rec.summary.val[i].kind = "str"
    /\ rec.tasks.kind = "array"
    /\ Len(rec.tasks.val) >= TASKS_MIN_ITEMS
    /\ Len(rec.tasks.val) <= TASKS_MAX_ITEMS
    /\ \A i \in 1..Len(rec.tasks.val) : task_schema(rec.tasks.val[i])
    /\ rec.uncertainties.kind = "array"
    /\ \A i \in 1..Len(rec.uncertainties.val) : rec.uncertainties.val[i].kind = "str"

KEY_PREFIX == Chars("sk-")

MIN_CHARS == 30

MISSING_KEY == "RuntimeError: OPENAI_API_KEY missing"

NON_ASCII_KEY == "RuntimeError: OPENAI_API_KEY has non-ASCII characters"

MALFORMED_KEY == "RuntimeError: OPENAI_API_KEY does not start with sk-"

\* (st.secrets.get("OPENAI_API_KEY") or "").strip() (line 53)
read_key(value) == strip(IF truthy(value) THEN value.val ELSE <<>>)

\* Mutant of validate_key: the check for non-ASCII characters is left out.
validate_key_without_ascii_check(api_key) ==
    IF api_key = <<>> THEN MISSING_KEY
    ELSE IF ~startswith(api_key, KEY_PREFIX) THEN MALFORMED_KEY
    ELSE ""

\* The checks of lines 54-66 on the trimmed key: the error raised, "" when none.
validate_key(api_key) ==
    IF api_key = <<>> THEN MISSING_KEY
    ELSE IF \E i \in 1..Len(api_key) : ord(api_key[i]) > 127 THEN NON_ASCII_KEY
    ELSE IF ~startswith(api_key, KEY_PREFIX) THEN MALFORMED_KEY
    ELSE ""

\* Mutant of too_short: the length is taken of the untrimmed text.
too_short_untrimmed(text) == text = <<>> \/ Len(text) < MIN_CHARS

\* The guard of line 152.
too_short(text) == text = <<>> \/ Len(strip(text)) < MIN_CHARS

TaskKeys == {"task", "due_local", "priority", "source_quote"}

\* The subscripts of lines 159-176: a missing key raises KeyError.
render_raises(rec) ==
    \/ ~({"title", "summary", "tasks", "uncertainties"} \subseteq DOMAIN rec)
    \/ \E i \in 1..Len(rec.tasks.val) : ~(TaskKeys \subseteq DOMAIN rec.tasks.val[i])

-----------------------------------------------------------------------------
(* The environment of a run: the text, the stored secret, the backend.      *)

MaxRuns == 2

Texts ==
    { <<>>, Rep("x", MIN_CHARS - 1), Rep("x", MIN_CHARS),
      <<" ">> \o Rep("x", MIN_CHARS - 1) \o <<"LF">>,
      Rep(" ", MIN_CHARS + 1),
      Rep("x", 15) \o <<" ">> \o Rep("x", MIN_CHARS - 16),
      <<"LF">> \o Rep("x", MIN_CHARS) \o <<" ">> }

Secrets ==
    { None, Str(<<>>), Str(Chars("  ")),
      Str(Chars("sk-a")), Str(Chars(" sk-a ")), Str(Chars("sk-")),
      Str(Chars("sk-a") \o <<"U+00A0">>), Str(<<"U+3000">> \o Chars("sk-a")),
      Str(<<"U+FEFF">> \o Chars("sk-a")), Str(Chars("sk-") \o <<"U+200B">> \o Chars("a")),
      Str(Chars("sk-") \o <<"U+AC00">>), Str(<<"U+AC00">>),
      Str(Chars("pk-a")), Str(Chars("sk")), Str(Chars("s k-a")), Str(Chars("ask-a")),
      Str(<<"U+00A0">>) }

RecTask(due) ==
    [task |-> Str(Chars("Submit")), due_local |-> due,
     priority |-> Str(Chars("high")), source_quote |-> Str(Chars("by Monday"))]

Rec(nsummary, tasks) ==
    [title |-> Str(Chars("Notice")), summary |-> Arr(Rep(Str(Chars("s")), nsummary)),
     tasks |-> Arr(tasks), uncertainties |-> Arr(<<>>)]

OneTask == << RecTask(Str(Chars("2025-03-10T09:00"))) >>

\* Payloads that parse: records that conform to SCHEMA and records that do not.
Records ==
    { Rec(SUMMARY_MIN_ITEMS, OneTask),
      Rec(SUMMARY_MAX_ITEMS, Rep(RecTask(Str(Chars("2025-03-10 09:00"))), TASKS_MAX_ITEMS)),
      Rec(SUMMARY_MIN_ITEMS, << RecTask(None), RecTask(Str(Chars("2025-3-10 9:00"))) >>),
      Rec(SUMMARY_MIN_ITEMS - 1, OneTask),
      Rec(SUMMARY_MAX_ITEMS + 1, OneTask),
      Rec(SUMMARY_MIN_ITEMS, Rep(RecTask(None), TASKS_MIN_ITEMS - 1)),
      Rec(SUMMARY_MIN_ITEMS, Rep(RecTask(None), TASKS_MAX_ITEMS + 1)),
      Rec(SUMMARY_MIN_ITEMS, << [RecTask(None) EXCEPT !.priority = Str(Chars("urgent"))] >>),
      Rec(SUMMARY_MIN_ITEMS, << RecTask(Num(Chars("20250310"))) >>),
      Rec(SUMMARY_MIN_ITEMS, << [task |-> Str(Chars("Submit")), due_local |-> None] >>),
      [title |-> Str(Chars("Notice")), summary |-> Arr(Rep(Str(Chars("s")), 3)),
       tasks |-> Arr(OneTask), uncertainties |-> Arr(<<>>), note |-> Str(Chars("n"))],
      [summary |-> Arr(Rep(Str(Chars("s")), 3)), tasks |-> Arr(OneTask),
       uncertainties |-> Arr(<<>>)] }

\* What client.responses.create can do: raise, or give a text that json.loads
\* rejects, or give a text that parses to a record.
Responses ==
    {[kind |-> "error", value |-> NoData], [kind |-> "garbage", value |-> NoData]}
        \cup {[kind |-> "json", value |-> r] : r \in Records}

Init ==
    /\ pc = "idle"
    /\ raw_text = <<>>
    /\ secret = None
    /\ response = NoResponse
    /\ data = NoData
    /\ err = ""
    /\ warned = FALSE
    /\ sent = 0
    /\ passed = 0
    /\ runs = 0
    /\ yearPadded \in BOOLEAN
    /\ now_utc = <<>>
    /\ args = NoArgs
    /\ ics = NotCalled

\* The button is pressed (line 151): the script runs from the top with the
\* text of the page and the secret of the store.
Press(text, key) ==
    /\ pc \in {"idle", "stopped", "failed", "done"}
    /\ runs < MaxRuns
    /\ runs' = runs + 1
    /\ raw_text' = text
    /\ secret' = key
    /\ pc' = "guard"
    /\ response' = NoResponse
    /\ data' = NoData
    /\ err' = ""
    /\ warned' = FALSE
    /\ now_utc' = <<>>
    /\ args' = NoArgs
    /\ ics' = NotCalled
    /\ UNCHANGED <<sent, passed, yearPadded>>

\* Lines 152-154: warn and stop on a short text, else go on to call_ai.
Guard ==
    /\ pc = "guard"
    /\ IF too_short(raw_text)
       THEN warned' = TRUE /\ pc' = "stopped"
       ELSE warned' = warned /\ pc' = "call_ai"
    /\ UNCHANGED <<raw_text, secret, response, data, err, sent, passed, runs,
                   yearPadded, now_utc, args, ics>>

\* call_ai, lines 53-66: read and check the key.
Validate ==
    /\ pc = "call_ai"
    /\ LET e == validate_key(read_key(secret))
       IN  IF e # ""
           THEN err' = e /\ pc' = "failed" /\ passed' = passed
           ELSE err' = err /\ pc' = "request" /\ passed' = passed + 1
    /\ UNCHANGED <<raw_text, secret, response, data, warned, sent, runs,
                   yearPadded, now_utc, args, ics>>

\* Mutant of Request: a failed request is sent a second time.
RequestWithRetry(resp) ==
    /\ pc = "request"
    /\ sent' = (IF resp.kind = "error" THEN sent + 2 ELSE sent + 1)
    /\ response' = resp
    /\ IF resp.kind = "error"
       THEN err' = "APIError" /\ pc' = "failed"
       ELSE err' = err /\ pc' = "loads"
    /\ UNCHANGED <<raw_text, secret, data, warned, passed, runs, yearPadded,
                   now_utc, args, ics>>

\* call_ai, lines 68-90: the one client.responses.create call.
Request(resp) ==
    /\ pc = "request"
    /\ sent' = sent + 1
    /\ response' = resp
    /\ IF resp.kind = "error"
       THEN err' = "APIError" /\ pc' = "failed"
       ELSE err' = err /\ pc' = "loads"
    /\ UNCHANGED <<raw_text, secret, data, warned, passed, runs, yearPadded,
                   now_utc, args, ics>>

\* call_ai, line 91: json.loads(resp.output_text), returned as it is.
Loads ==
    /\ pc = "loads"
    /\ IF response.kind = "garbage"
       THEN err' = "JSONDecodeError" /\ pc' = "failed" /\ data' = data
       ELSE err' = err /\ pc' = "render" /\ data' = response.value
    /\ UNCHANGED <<raw_text, secret, response, warned, sent, passed, runs,
                   yearPadded, now_utc, args, ics>>

\* Lines 159-176: the record is rendered.
Render ==
    /\ pc = "render"
    /\ IF render_raises(data)
       THEN err' = "KeyError" /\ pc' = "failed"
       ELSE err' = err /\ pc' = "export"
    /\ UNCHANGED <<raw_text, secret, response, data, warned, sent, passed, runs,
                   yearPadded, now_utc, args, ics>>

\* Lines 178-184: to_ics(data["tasks"]) for the download button.
Export(now) ==
    /\ pc = "export"
    /\ now_utc' = now
    /\ args' = [tasks |-> data.tasks.val, tzid |-> DEFAULT_TZID]
    /\ ics' = to_ics(data.tasks.val, DEFAULT_TZID, now, yearPadded)
    /\ IF ics'.status = "raised"
       THEN err' = ics'.exc /\ pc' = "failed"
       ELSE err' = err /\ pc' = "done"
    /\ UNCHANGED <<raw_text, secret, response, data, warned, sent, passed, runs,
                   yearPadded>>

Next ==
    \/ \E text \in Texts, key \in Secrets : Press(text, key)
    \/ Guard
    \/ Validate
    \/ \E resp \in Responses : Request(resp)
    \/ Loads
    \/ Render
    \/ \E now \in Clocks : Export(now)

Spec == Init /\ [][Next]_vars

-----------------------------------------------------------------------------
(* Reading a calendar document back: its lines and its events.              *)

\* A sequence given as a function, as a tuple of its elements.
Tuple(f) == SubSeq(f, 1, Len(f))

\* The numbers of a set, in increasing order.
Ascending(hits) ==
    Tuple([n \in 1..Cardinality(hits) |->
              CHOOSE i \in hits : Cardinality({j \in hits : j < i}) = n - 1])

\* The pieces of doc between the cuts, cuts being positions in increasing order.
Pieces(doc, cuts) ==
    Tuple([n \in 1..(Len(cuts) + 1) |->
              SubSeq(doc,
                     IF n = 1 THEN 1 ELSE cuts[n - 1] + 1,
                     IF n = Len(cuts) + 1 THEN Len(doc) ELSE cuts[n] - 1)])

\* doc.split("\n")
split_lines(doc) == Pieces(doc, Ascending({i \in 1..Len(doc) : doc[i] = "LF"}))

\* The text after the prefix, of the first line of the block that has the prefix.
Field(block, prefix) ==
    LET at == {j \in 1..Len(block) : startswith(block[j], prefix)}
    IN  IF at = {} THEN <<"<absent>">>
        ELSE LET j == CHOOSE x \in at : \A y \in at : x <= y
             IN  SubSeq(block[j], Len(prefix) + 1, Len(block[j]))

\* The lines after the BEGIN:VEVENT line at b, up to the next END:VEVENT line.
Block(lines, b) ==
    LET ends == {j \in (b + 1)..Len(lines) : lines[j] = Chars("END:VEVENT")}
    IN  SubSeq(lines, b + 1,
               IF ends = {} THEN Len(lines)
               ELSE (CHOOSE j \in ends : \A x \in ends : j <= x) - 1)

EventOf(block, tzid) ==
    [uid     |-> Field(block, Chars("UID:")),
     dtstart |-> Field(block, Chars("DTSTART;TZID=") \o tzid \o <<":">>),
     dtend   |-> Field(block, Chars("DTEND;TZID=") \o tzid \o <<":">>),
     summary |-> Field(block, Chars("SUMMARY:"))]

\* The events of the lines of a document, in order.
EventsOfLines(lines, begins, tzid) ==
    Tuple([n \in 1..Len(begins) |-> EventOf(Block(lines, begins[n]), tzid)])

BeginsOf(lines) ==
    Ascending({j \in 1..Len(lines) : lines[j] = Chars("BEGIN:VEVENT")})

EventsOf(doc, tzid) ==
    EventsOfLines(split_lines(doc), BeginsOf(split_lines(doc)), tzid)

Returned == ics.status = "returned"

DocLines == split_lines(ics.doc)

DocEvents == EventsOf(ics.doc, args.tzid)

\* The positions (from 1) of the tasks whose due_local parsed, in order.
ParsedTasks ==
    Ascending({k \in 1..Len(args.tasks) : parse_due(args.tasks[k]).act = "emit"})

DueOf(k) == get(args.tasks[k], "due_local")

\* The due string of task k as strptime is given it.
NormalDue(k) == replace(strip(DueOf(k).val), "T", " ")

AllIn(s, set) == \A i \in 1..Len(s) : s[i] \in set

-----------------------------------------------------------------------------
(* Claims about to_ics, checked under SpecIcs.                              *)

\* C2: a returned document starts with the line BEGIN:VCALENDAR, ends with the
\* line END:VCALENDAR, and has as many BEGIN:VEVENT lines as there are tasks
\* whose due_local parsed.
C2_Framing ==
    Returned =>
        LET lines == DocLines
        IN  /\ lines[1] = Chars("BEGIN:VCALENDAR")
            /\ lines[Len(lines)] = Chars("END:VCALENDAR")
            /\ Cardinality({j \in 1..Len(lines) : lines[j] = Chars("BEGIN:VEVENT")})
                  = Len(ParsedTasks)

\* C2 witness: a call with two tasks, one with a null due_local and one whose
\* due_local parsed, has returned.
C2_Witness ==
    /\ Returned
    /\ Len(args.tasks) = 2
    /\ \E k \in 1..2 : DueOf(k) = None
    /\ Len(ParsedTasks) = 1

\* C3: to_ics never raises, whatever the items' due_local and task are.
C3_NeverRaises == ics.status # "raised"

\* The form the claim C4 names: YYYY-MM-DD HH:MM, every component of full
\* width, one space, all in range.
StrictForm(s) ==
    /\ Len(s) = 16
    /\ AllIn(SubSeq(s, 1, 4) \o SubSeq(s, 6, 7) \o SubSeq(s, 9, 10)
                \o SubSeq(s, 12, 13) \o SubSeq(s, 15, 16), UnicodeDigits)
    /\ s[5] = "-" /\ s[8] = "-" /\ s[11] = " " /\ s[14] = ":"
    /\ int_digits(SubSeq(s, 6, 7)) \in 1..12
    /\ int_digits(SubSeq(s, 9, 10)) \in 1..31
    /\ int_digits(SubSeq(s, 12, 13)) \in 0..23
    /\ int_digits(SubSeq(s, 15, 16)) \in 0..59

\* The form strptime admits: a four-digit year, '-', a month of one or two
\* digits, '-', a day of one or two digits (or a space and a digit), one or more
\* whitespace characters, an hour of one or two digits, ':', a minute of one or
\* two digits; the date a date of the calendar, the time in range.
LenientForm(s) ==
    \E a \in 1..2, b \in 1..2, w \in 1..Len(s), h \in 1..2, n \in 1..2 :
        LET pm  == 6
            pd  == pm + a + 1
            pw  == pd + b
            ph  == pw + w
            pcl == ph + h
            day == SubSeq(s, pd, pd + b - 1)
        IN  /\ Len(s) = pcl + n
            /\ AllIn(SubSeq(s, 1, 4), UnicodeDigits)
            /\ s[5] = "-"
            /\ AllIn(SubSeq(s, pm, pm + a - 1), UnicodeDigits)
            /\ s[pm + a] = "-"
            /\ \/ AllIn(day, UnicodeDigits)
               \/ b = 2 /\ day[1] = " " /\ day[2] \in UnicodeDigits
            /\ \A q \in pw..(ph - 1) : isspace(s[q])
            /\ AllIn(SubSeq(s, ph, ph + h - 1), UnicodeDigits)
            /\ s[pcl] = ":"
            /\ AllIn(SubSeq(s, pcl + 1, pcl + n), UnicodeDigits)
            /\ int_digits(SubSeq(s, 1, 4)) >= 1
            /\ int_digits(SubSeq(s, pm, pm + a - 1)) \in 1..12
            /\ int(day) \in 1..days_in_month(int_digits(SubSeq(s, 1, 4)),
                                             int_digits(SubSeq(s, pm, pm + a - 1)))
            /\ int_digits(SubSeq(s, ph, ph + h - 1)) \in 0..23
            /\ int_digits(SubSeq(s, pcl + 1, pcl + n)) \in 0..59

\* The tasks (positions from 1) the document has an event for, read off the
\* index in the UID lines.
EmittedTasks ==
    LET lines == DocLines
    IN  {k \in 1..Len(args.tasks) :
            \E j \in 1..Len(lines) :
                startswith(lines[j], Chars("UID:notice2do-") \o str_int(k - 1) \o <<"-">>)}

\* C4 as claimed: an event is emitted for a task only if its due_local, trimmed
\* and with T rewritten to a space, has exactly the form YYYY-MM-DD HH:MM.
C4_OnlyStrictForm ==
    Returned =>
        \A k \in EmittedTasks : DueOf(k).kind = "str" /\ StrictForm(NormalDue(k))

\* C4 as amended: an event is emitted for a task only if its due_local, trimmed
\* and with every T rewritten to a space, has the form strptime admits
\* (components of one or two digits and a run of whitespace are accepted).
C4_OnlyLenientForm ==
    Returned =>
        \A k \in EmittedTasks : DueOf(k).kind = "str" /\ LenientForm(NormalDue(k))

\* C4 witness: an event was emitted for a due_local that is not of the strict
\* form, and a call with a due_local of neither form returned without an event.
C4_Witness ==
    /\ Returned
    /\ Len(args.tasks) = 2
    /\ EmittedTasks = {1}
    /\ ~StrictForm(NormalDue(1))
    /\ DueOf(2).kind = "str" /\ ~LenientForm(NormalDue(2))

\* YYYYMMDDTHHMM00 of a parsed date-time: 8 date digits, T, 6 time digits.
Stamp(dt) ==
    zfill(dt.Y, 4) \o zfill(dt.m, 2) \o zfill(dt.d, 2) \o <<"T">>
        \o zfill(dt.H, 2) \o zfill(dt.M, 2) \o Chars("00")

\* C7: for every task whose due_local parses to d, the event's DTSTART and
\* DTEND carry the same value, tagged with the tzid argument, and that value is
\* d written as YYYYMMDDTHHMM00.
C7_StartEnd ==
    Returned =>
        LET events == DocEvents
            parsed == ParsedTasks
        IN  /\ Len(events) = Len(parsed)
            /\ \A n \in 1..Len(events) :
                  /\ events[n].dtstart = Stamp(parse_due(args.tasks[parsed[n]]).dt)
                  /\ events[n].dtend = events[n].dtstart

\* C8: no two events of a document have the same UID, and the UID of the event
\* of the task at zero-based position i is notice2do-{i}-{start}@local, start
\* being the event's start value.
C8_UniqueUids ==
    Returned =>
        LET events == DocEvents
            parsed == ParsedTasks
        IN  /\ Len(events) = Len(parsed)
            /\ \A n1, n2 \in 1..Len(events) :
                  n1 # n2 => events[n1].uid # events[n2].uid
            /\ \A n \in 1..Len(events) :
                  events[n].uid =
                      Chars("notice2do-") \o str_int(parsed[n] - 1) \o <<"-">>
                          \o events[n].dtstart \o Chars("@local")

\* C8 witness: two tasks with the same due_local both got an event.
C8_Witness ==
    /\ Returned
    /\ Len(args.tasks) = 2
    /\ DueOf(1) = DueOf(2)
    /\ Len(DocEvents) = 2

\* The SUMMARY the claim C9 names: line breaks (LF, CR) become spaces, the
\* result is trimmed; the placeholder when the description is missing or empty.
ClaimedSummary(t) ==
    LET v == get(t, "task")
    IN  IF v = None \/ v.val = <<>> THEN PLACEHOLDER
        ELSE strip(replace(replace(v.val, "LF", " "), "CR", " "))

\* C9: every event's SUMMARY is the task description with every line break
\* (LF or CR) replaced by a space and trimmed, or the placeholder when the
\* description is missing or empty.
C9_Summary ==
    Returned =>
        LET events == DocEvents
            parsed == ParsedTasks
        IN  /\ Len(events) = Len(parsed)
            /\ \A n \in 1..Len(events) :
                  events[n].summary = ClaimedSummary(args.tasks[parsed[n]])

-----------------------------------------------------------------------------
(* Claims about call_ai and the button handler, checked under Spec.         *)

\* The credential as stored, before line 53 trims it.
KeyText == IF secret = None THEN <<>> ELSE secret.val

HasNonAscii(k) == \E i \in 1..Len(k) : ord(k[i]) > 127

\* The run is past the checks of the key.
Validated == pc \in {"request", "loads", "render", "export", "done", "failed"}

\* call_ai failed with a configuration error and no request was issued.
ConfigFailure ==
    /\ pc = "failed"
    /\ err \in {MISSING_KEY, NON_ASCII_KEY, MALFORMED_KEY}
    /\ response = NoResponse

\* C1 as claimed: for every credential that is empty after trimming, or has a
\* character above 127, or does not start with sk-, call_ai fails with a
\* configuration error and no request is issued.
C1_AnyBadCredential ==
    ( /\ Validated
      /\ \/ strip(KeyText) = <<>>
         \/ HasNonAscii(KeyText)
         \/ ~startswith(KeyText, KEY_PREFIX) )
        => ConfigFailure

\* C1 as amended: for every credential whose value after trimming the
\* surrounding whitespace is empty, or has a character above 127, or does not
\* start with sk-, call_ai fails with a configuration error and no request is
\* issued.
C1_BadTrimmedCredential ==
    ( /\ Validated
      /\ \/ strip(KeyText) = <<>>
         \/ HasNonAscii(strip(KeyText))
         \/ ~startswith(strip(KeyText), KEY_PREFIX) )
        => ConfigFailure

\* C1 witness: call_ai has failed on a key that starts with sk- and has a
\* non-ASCII character inside.
C1_Witness ==
    /\ ConfigFailure
    /\ err = NON_ASCII_KEY
    /\ startswith(KeyText, KEY_PREFIX)

\* C5: a record call_ai returns conforms to SCHEMA, and a payload that does
\* not parse or does not conform makes call_ai fail instead of returning.
C5_SchemaEnforced ==
    /\ data # NoData => SCHEMA(data)
    /\ ( /\ pc \in {"render", "export", "done", "failed"}
         /\ \/ response.kind = "garbage"
            \/ response.kind = "json" /\ ~SCHEMA(response.value) )
          => (pc = "failed" /\ err \in {"APIError", "JSONDecodeError"} /\ data = NoData)

C10_StepOrder ==
    /\ pc \in {"call_ai", "request", "loads", "render", "export", "done", "failed"}
          => Len(strip(raw_text)) >= MIN_CHARS
    /\ response # NoResponse => Len(strip(raw_text)) >= MIN_CHARS
    /\ (pc \notin {"idle", "guard"} /\ Len(strip(raw_text)) < MIN_CHARS)
          => (pc = "stopped" /\ warned)
    /\ pc \in {"guard", "stopped"}
          => (response = NoResponse /\ data = NoData /\ ics = NotCalled /\ err = "")
    /\ warned => pc = "stopped"
    /\ pc \in {"call_ai", "request", "loads"} => (data = NoData /\ ics = NotCalled)
    /\ ics # NotCalled => (data # NoData /\ response.kind = "json")
    /\ (pc = "failed" /\ data = NoData) => ics = NotCalled

\* C10 witness: a second press with a text of 30 characters or more that is
\* shorter once trimmed has stopped with the warning, with no new request.
C10_Witness ==
    /\ pc = "stopped"
    /\ warned
    /\ Len(raw_text) >= MIN_CHARS
    /\ runs = 2
    /\ sent = 1

=============================================================================
